---- MODULE Spec2Model ----
(***************************************************************************)
(* Tool registry / dynamic dispatch loader of the AI-Archive MCP server:   *)
(* ToolLoader (src/utils/toolLoader.js), the dynamic server shell that     *)
(* drives it, and the static server shell (src/server-static.js).          *)
(***************************************************************************)
EXTENDS Integers, Sequences, FiniteSets, TLC

(***************************************************************************)
(* Bounds of the model.                                                    *)
(***************************************************************************)
\* number of CallTool requests served in one process lifetime
MaxCalls == 1
\* number of process restarts (fresh loader constructions after the first)
MaxRestarts == 1
\* number of edits of tools-config.json made by the operator, and of
\* updateModuleConfig calls
MaxEdits == 1
\* number of getStats calls on one loader
MaxStats == 2
\* number of makeApiRequest calls in one process lifetime
MaxRequests == 2
\* the last hour the clock reaches
MaxClock == 30

(***************************************************************************)
(* JavaScript values.                                                      *)
(***************************************************************************)
\* the value `undefined` where a string is expected (a tool without a name)
UNDEF == "<undefined>"

\* `${x}` template rendering of a name
Str(x) == IF x = UNDEF THEN "undefined" ELSE x

\* !x for a name
Falsy(x) == x = UNDEF \/ x = ""

\* a handler function: the provider that created it and the key it was
\* registered under
Handler(owner, name) == [owner |-> owner, name |-> name]

\* the result of a property read that finds nothing
UndefinedHandler == Handler("<undefined>", "<undefined>")

\* properties every plain object inherits from Object.prototype
ObjectPrototypeNames == {"constructor", "toString", "valueOf", "hasOwnProperty"}

\* the inherited function found under such a name
Builtin(name) == Handler("Object.prototype", name)

\* obj[name] on a plain object whose own properties are the function obj
Lookup(obj, name) ==
  IF name \in DOMAIN obj THEN obj[name]
  ELSE IF name \in ObjectPrototypeNames THEN Builtin(name)
  ELSE UndefinedHandler

\* a merge that keeps the value a key already has
RECURSIVE ObjectAssignKeepFirst(_, _)
ObjectAssignKeepFirst(target, entries) ==
  IF entries = <<>> THEN target
  ELSE LET e == Head(entries)
           t == [n \in (DOMAIN target) \cup {e.name} |->
                   IF n \in DOMAIN target THEN target[n] ELSE e.fn]
       IN ObjectAssignKeepFirst(t, Tail(entries))

\* Object.assign(target, source), source given as its entries in key order
RECURSIVE ObjectAssign(_, _)
ObjectAssign(target, entries) ==
  IF entries = <<>> THEN target
  ELSE LET e == Head(entries)
           t == [n \in (DOMAIN target) \cup {e.name} |->
                   IF n = e.name THEN e.fn ELSE target[n]]
       IN ObjectAssign(t, Tail(entries))

\* the empty object {}
EmptyObject == [n \in {} |-> UndefinedHandler]

(***************************************************************************)
(* Tool providers: the modules under src/tools/<name>/index.js.            *)
(***************************************************************************)
Providers == <<"search", "papers", "agents">>

ProviderSet == {Providers[i] : i \in DOMAIN Providers}

\* a tool definition; description is its truthiness, inputSchema its shape
Tool(owner, name, description, inputSchema) ==
  [owner |-> owner, name |-> name, description |-> description,
   inputSchema |-> inputSchema]

GoodTool(owner, name) == Tool(owner, name, TRUE, "valid")

\* an entry of the object getToolHandlers() returns
Entry(owner, name) == [name |-> name, fn |-> Handler(owner, name)]

SearchToolNames ==
  <<"search_papers", "discover_papers", "get_search_suggestions",
    "get_platform_stats">>

PaperToolNames ==
  <<"submit_paper", "get_paper", "get_paper_metadata", "check_pending_reviews",
    "create_paper_version", "get_user_papers", "delete_paper",
    "get_pipeline_status">>

AgentToolNames == <<"get_agents", "create_agent", "update_agent">>

ReviewToolNames ==
  <<"submit_review", "get_reviews", "get_paper_reviews", "update_review">>

CitationToolNames ==
  <<"get_citations", "get_citing_papers", "get_paper_references",
    "get_citation_graph", "get_citation_stats">>

MarketplaceToolNames ==
  <<"search_reviewers", "get_reviewer_details", "request_review",
    "get_review_requests", "respond_to_review_request",
    "create_marketplace_profile", "request_reviewer_for_paper",
    "update_marketplace_profile", "get_marketplace_analytics",
    "get_incoming_requests", "bulk_respond_requests", "update_request_status">>

UserToolNames ==
  <<"get_user_profile", "update_user_profile", "change_password",
    "get_user_storage", "get_notifications", "get_unread_count",
    "mark_notification_read", "mark_all_read">>

\* the providers of the repository that the model installs as they are
OtherProviders == <<"reviews", "citations", "marketplace", "users">>

OtherProviderSet == {OtherProviders[i] : i \in DOMAIN OtherProviders}

\* the tool names of one of them
OtherToolNames(p) ==
  CASE p = "reviews" -> ReviewToolNames
    [] p = "citations" -> CitationToolNames
    [] p = "marketplace" -> MarketplaceToolNames
    [] OTHER -> UserToolNames

GoodTools(owner, names) == [i \in DOMAIN names |-> GoodTool(owner, names[i])]

Entries(owner, names) == [i \in DOMAIN names |-> Entry(owner, names[i])]

\* what can be found at ../tools/<name>/index.js
Impls ==
  [search |-> {"ok", "nofile", "nodefault"},
   papers |-> {"ok", "ctorThrows", "defsThrow", "badDefs", "missing"},
   agents |-> {"ok", "handlersThrow", "badHandlers", "extra", "shadow",
               "malformed"}]

\* getToolDefinitions() of provider p built as impl
ToolDefinitions(p, impl) ==
  CASE p = "search" -> GoodTools(p, SearchToolNames)
    [] p \in OtherProviderSet -> GoodTools(p, OtherToolNames(p))
    [] p = "papers" /\ impl = "missing" ->
         GoodTools(p, PaperToolNames) \o <<GoodTool(p, "toString")>>
    [] p = "papers" -> GoodTools(p, PaperToolNames)
    [] p = "agents" /\ impl = "shadow" ->
         GoodTools(p, AgentToolNames) \o <<GoodTool(p, "search_papers")>>
    [] p = "agents" /\ impl = "malformed" ->
         <<GoodTool(p, "get_agents"),
           Tool(p, "create_agent", TRUE, "noprops"),
           Tool(p, "update_agent", TRUE, "notype"),
           Tool(p, "delete_agent", FALSE, "valid"),
           Tool(p, "list_agents", TRUE, "absent"),
           Tool(p, UNDEF, TRUE, "valid")>>
    [] OTHER -> GoodTools(p, AgentToolNames)

\* getToolHandlers() of provider p built as impl, as entries in key order
ToolHandlers(p, impl) ==
  CASE p = "search" -> Entries(p, SearchToolNames)
    [] p \in OtherProviderSet -> Entries(p, OtherToolNames(p))
    [] p = "papers" /\ impl = "missing" -> Entries(p, Tail(PaperToolNames))
    [] p = "papers" -> Entries(p, PaperToolNames)
    [] p = "agents" /\ impl = "extra" ->
         Entries(p, AgentToolNames \o <<"legacy_agent", "submit_paper">>)
    [] p = "agents" /\ impl = "shadow" ->
         Entries(p, AgentToolNames \o <<"search_papers">>)
    [] p = "agents" /\ impl = "malformed" ->
         Entries(p, <<"get_agents", "create_agent", "update_agent",
                      "delete_agent", "list_agents">>)
    [] OTHER -> Entries(p, AgentToolNames)

\* the statement of loadModule at which loading provider built as impl throws
ThrowsAt(impl) ==
  CASE impl = "nofile" -> "existsSync"
    [] impl = "nodefault" -> "default"
    [] impl = "ctorThrows" -> "constructor"
    [] impl = "defsThrow" -> "getToolDefinitions"
    [] impl = "handlersThrow" -> "getToolHandlers"
    [] impl = "badDefs" -> "toolNames"
    [] impl = "badHandlers" -> "handlerNames"
    [] OTHER -> "none"

(***************************************************************************)
(* Configuration document (src/config/tools-config.json).                  *)
(***************************************************************************)
\* one key of enabledModules; enabled is "true", "false" or "missing"
ModuleEntry(name, enabled) == [name |-> name, enabled |-> enabled]

\* a parsed configuration: enabledModules as its entries in key order
Config(entries, orderPresent, order) ==
  [modulesPresent |-> TRUE, enabledModules |-> entries,
   orderPresent |-> orderPresent, moduleLoadOrder |-> order]

\* a parsed configuration that has no enabledModules property
ConfigWithoutModules(orderPresent, order) ==
  [Config(<<>>, orderPresent, order) EXCEPT !.modulesPresent = FALSE]

\* tools-config.json on disk: status is "ok" when readFileSync and JSON.parse
\* succeed, "unreadable" when the first throws, "corrupt" when the second
\* does; doc is what the content parses to
File(status, doc) == [status |-> status, doc |-> doc]

\* Object.keys(config.enabledModules)
EnabledKeys(config) ==
  [i \in DOMAIN config.enabledModules |-> config.enabledModules[i].name]

\* config.enabledModules[name]
ModuleConfig(config, name) ==
  IF \E i \in DOMAIN config.enabledModules : config.enabledModules[i].name = name
  THEN LET i == CHOOSE i \in DOMAIN config.enabledModules :
                   config.enabledModules[i].name = name
       IN [found |-> "own", enabled |-> config.enabledModules[i].enabled]
  ELSE IF name \in ObjectPrototypeNames
       THEN [found |-> "inherited", enabled |-> "missing"]
       ELSE [found |-> "none", enabled |-> "missing"]

\* the skip test written as `moduleConfig && moduleConfig.enabled === false`
DisabledOnlyWhenFalse(c, name) ==
  ModuleConfig(c, name).found # "none" /\ ModuleConfig(c, name).enabled = "false"

\* !moduleConfig || !moduleConfig.enabled
Disabled(c, name) ==
  LET moduleConfig == ModuleConfig(c, name)
  IN moduleConfig.found = "none" \/ moduleConfig.enabled # "true"

\* a load order that appends the keys moduleLoadOrder does not name
ModuleOrderWithKeys(config) ==
  IF config.orderPresent
  THEN config.moduleLoadOrder \o
         SelectSeq([i \in DOMAIN config.enabledModules |->
                      config.enabledModules[i].name],
                   LAMBDA n : \A j \in DOMAIN config.moduleLoadOrder :
                                config.moduleLoadOrder[j] # n)
  ELSE [i \in DOMAIN config.enabledModules |-> config.enabledModules[i].name]

\* config.moduleLoadOrder || Object.keys(config.enabledModules)
ModuleOrder(config) ==
  IF config.orderPresent THEN config.moduleLoadOrder ELSE EnabledKeys(config)

\* the key orders of enabledModules the model starts from
KeyOrders ==
  {<<"search", "papers", "agents">>, <<"papers", "agents", "search">>,
   <<"search", "papers">>}

\* the values of `enabled` the model starts from, per provider
Flags ==
  [search |-> {"true", "false"}, papers |-> {"true", "false", "missing"},
   agents |-> {"true", "false"}]

\* the moduleLoadOrder arrays the model starts from
LoadOrders ==
  {<<"search", "papers", "agents">>, <<"agents", "ghost", "search">>,
   <<"papers", "constructor", "search", "papers">>, <<"search", "papers">>}

EnabledDocs ==
  UNION {{[i \in DOMAIN keys |-> ModuleEntry(keys[i], f[keys[i]])] :
            f \in {g \in [ProviderSet -> {"true", "false", "missing"}] :
                     \A p \in ProviderSet : g[p] \in Flags[p] /\
                       ((~\E i \in DOMAIN keys : keys[i] = p) => g[p] = "true")}} :
         keys \in KeyOrders}

ConfigDocs ==
  {Config(e, TRUE, o) : e \in EnabledDocs, o \in LoadOrders}
    \cup {Config(e, FALSE, <<>>) : e \in EnabledDocs}

\* the configuration loadConfig returns from its catch block
DefaultConfig ==
  Config(<<ModuleEntry("search", "true"), ModuleEntry("papers", "true"),
           ModuleEntry("agents", "true"), ModuleEntry("reviews", "true"),
           ModuleEntry("citations", "true"), ModuleEntry("marketplace", "true"),
           ModuleEntry("users", "true")>>,
         TRUE,
         <<"search", "papers", "agents", "reviews", "citations", "marketplace",
           "users">>)

(***************************************************************************)
(* Log lines written to stderr.                                            *)
(***************************************************************************)
LogLine(kind, module, names, count) ==
  [kind |-> kind, module |-> module, names |-> names, count |-> count]

\* Array.prototype.filter over a sequence of names
RECURSIVE FilterNames(_, _)
FilterNames(names, keep) ==
  IF names = <<>> THEN <<>>
  ELSE IF Head(names) \in keep
       THEN <<Head(names)>> \o FilterNames(Tail(names), keep)
       ELSE FilterNames(Tail(names), keep)

Range(seq) == {seq[i] : i \in DOMAIN seq}

(***************************************************************************)
(* ToolLoader.                                                             *)
(***************************************************************************)
\* loadedModules.set(name, data) on a Map kept as its entries in insertion order
MapSet(map, name, data) ==
  IF \E i \in DOMAIN map : map[i].name = name
  THEN [i \in DOMAIN map |-> IF map[i].name = name THEN data ELSE map[i]]
  ELSE Append(map, data)

\* loadedModules.get(name)
MapHas(map, name) == \E i \in DOMAIN map : map[i].name = name

MapGet(map, name) == map[CHOOSE i \in DOMAIN map : map[i].name = name]

\* the loader fields loadModule works on, with the lines it logs and the
\* message of the error it throws ("" when it returns)
LoaderData(modules, tools, handlers, lines, threw) ==
  [loadedModules |-> modules, allTools |-> tools, allHandlers |-> handlers,
   lines |-> lines, threw |-> threw]

\* this.allTools.push(...toolDefinitions), with the variant that puts the
\* new tools in front
UnshiftTools(all, toolDefinitions) == toolDefinitions \o all

PushTools(all, toolDefinitions) == all \o toolDefinitions

\* the second half of loadModule: compare the names, warn, store the module
\* and add its tools and handlers to the global collections
Register(l, moduleName, toolDefinitions, toolHandlers) ==
  LET toolNames == [i \in DOMAIN toolDefinitions |-> toolDefinitions[i].name]
      handlerNames == [i \in DOMAIN toolHandlers |-> toolHandlers[i].name]
      missingHandlers ==
        FilterNames(toolNames, Range(toolNames) \ Range(handlerNames))
      extraHandlers ==
        FilterNames(handlerNames, Range(handlerNames) \ Range(toolNames))
      warnMissing ==
        IF Len(missingHandlers) > 0
        THEN <<LogLine("missingHandlers", moduleName, missingHandlers, 0)>>
        ELSE <<>>
      warnExtra ==
        IF Len(extraHandlers) > 0
        THEN <<LogLine("extraHandlers", moduleName, extraHandlers, 0)>>
        ELSE <<>>
  IN LoaderData(
       MapSet(l.loadedModules, moduleName,
              [name |-> moduleName, tools |-> toolDefinitions,
               handlers |-> toolHandlers]),
       PushTools(l.allTools, toolDefinitions),
       ObjectAssign(l.allHandlers, toolHandlers),
       l.lines \o warnMissing \o warnExtra,
       "")

\* loadModule with the module stored and its tools pushed as soon as
\* getToolDefinitions() has returned, before getToolHandlers() is called
LoadModuleStoreEarly(l, moduleName, built) ==
  LET at == ThrowsAt(built)
  IN IF at = "existsSync"
     THEN [l EXCEPT !.threw = "Module file not found"]
     ELSE IF at \in {"getToolHandlers", "handlerNames"}
     THEN [Register(l, moduleName, ToolDefinitions(moduleName, built), <<>>)
             EXCEPT !.lines = l.lines, !.threw = "Failed to load module"]
     ELSE IF at # "none"
     THEN [l EXCEPT !.threw = "Failed to load module"]
     ELSE Register(l, moduleName, ToolDefinitions(moduleName, built),
                   ToolHandlers(moduleName, built))

\* loadModule(moduleName) on a loader l, the module being built as built
LoadModule(l, moduleName, built) ==
  LET at == ThrowsAt(built)
  IN IF at = "existsSync"
     THEN [l EXCEPT !.threw = "Module file not found"]
     ELSE IF at # "none"
     THEN [l EXCEPT !.threw = "Failed to load module"]
     ELSE Register(l, moduleName, ToolDefinitions(moduleName, built),
                   ToolHandlers(moduleName, built))

\* getModuleToolCount(moduleName)
GetModuleToolCount(modules, moduleName) ==
  IF MapHas(modules, moduleName)
  THEN Len(MapGet(modules, moduleName).tools) ELSE 0

\* getToolByName / getHandlerByName
GetHandlerByName(handlers, toolName) == Lookup(handlers, toolName)

\* the result of Array.prototype.find that finds nothing
UndefinedTool == Tool("<undefined>", UNDEF, FALSE, "absent")

\* getToolByName(toolName): the first definition of that name in allTools
GetToolByName(tools, toolName) ==
  LET found == {i \in DOMAIN tools : tools[i].name = toolName}
  IN IF found = {} THEN UndefinedTool
     ELSE tools[CHOOSE i \in found : \A j \in found : i <= j]

\* validateToolDefinition(tool): the error it throws, "" when it returns true
ValidateToolDefinition(tool) ==
  LET missingFields ==
        (IF Falsy(tool.name) THEN <<"name">> ELSE <<>>)
          \o (IF ~tool.description THEN <<"description">> ELSE <<>>)
          \o (IF tool.inputSchema = "absent" THEN <<"inputSchema">> ELSE <<>>)
  IN IF Len(missingFields) > 0 THEN "missing required fields"
     ELSE IF tool.inputSchema \in {"notype", "noprops"}
          THEN "invalid inputSchema"
          ELSE ""

\* validateAllTools() giving up at the first rejected tool
RECURSIVE ValidationErrorsFirst(_)
ValidationErrorsFirst(tools) ==
  IF tools = <<>> THEN <<>>
  ELSE LET tool == Head(tools)
           message == ValidateToolDefinition(tool)
       IN IF message # ""
          THEN <<[tool |-> Str(tool.name), message |-> message]>>
          ELSE ValidationErrorsFirst(Tail(tools))

\* validateAllTools(): the `errors` array, one line per rejected tool
RECURSIVE ValidationErrors(_)
ValidationErrors(tools) ==
  IF tools = <<>> THEN <<>>
  ELSE LET tool == Head(tools)
           message == ValidateToolDefinition(tool)
       IN (IF message # ""
           THEN <<[tool |-> Str(tool.name), message |-> message]>>
           ELSE <<>>) \o ValidationErrors(Tail(tools))

\* getModuleInfo(moduleName) of a loaded module, its description left out
GetModuleInfo(modules, moduleName) ==
  LET moduleData == MapGet(modules, moduleName)
  IN [name |-> moduleName,
      enabled |-> TRUE,
      toolCount |-> Len(moduleData.tools),
      tools |-> [i \in DOMAIN moduleData.tools |-> moduleData.tools[i].name]]

\* getStats() counting only the loaded modules the configuration enables
GetStatsEnabledOnly(config, modules, tools, handlers) ==
  LET on == SelectSeq(modules,
                      LAMBDA m : ModuleConfig(config, m.name).enabled = "true")
  IN [totalModules |-> Len(on),
      totalTools |-> Len(tools),
      totalHandlers |-> Cardinality(DOMAIN handlers),
      modules |-> [i \in DOMAIN on |->
                     [name |-> on[i].name,
                      toolCount |-> Len(on[i].tools),
                      enabled |-> TRUE]]]

\* getStats()
GetStats(config, modules, tools, handlers) ==
  [totalModules |-> Len(modules),
   totalTools |-> Len(tools),
   totalHandlers |-> Cardinality(DOMAIN handlers),
   modules |-> [i \in DOMAIN modules |->
                  [name |-> modules[i].name,
                   toolCount |-> Len(modules[i].tools),
                   enabled |-> ModuleConfig(config, modules[i].name).enabled = "true"]]]

(***************************************************************************)
(* State.                                                                  *)
(***************************************************************************)
VARIABLES
  env,            \* process.env.NODE_ENV: "production", "development", "unset"
  entry,          \* the entry point that runs: "dynamic" or "static"
  impl,           \* what is installed under src/tools/<name>/index.js
  configFile,     \* tools-config.json on disk
  config,         \* toolLoader.config
  loaderState,    \* "Unloaded", "Loading", "Loaded", "Failed"
  idx,            \* position of loadAllModules in moduleOrder
  loadedModules,  \* toolLoader.loadedModules
  allTools,       \* toolLoader.allTools
  allHandlers,    \* toolLoader.allHandlers
  log,            \* lines written to stderr by this process
  shell,          \* "constructed", "initializing", "initialized", "connected", "exited"
  serverTools,    \* server.tools
  serverHandlers, \* server.handlers
  exitCode,       \* process exit code, -1 while the process runs
  raised,         \* the error that made start() give up, kind "" when none
  response,       \* the answer to the last request
  calls,          \* requests answered by this process
  edits,          \* edits of tools-config.json made so far
  restarts,       \* processes started after the first
  prev,           \* what the previous process ended with
  stats,          \* the calls of getStats() made on this loader
  api             \* baseUtils, the API client of the tool handlers

vars ==
  <<env, entry, impl, configFile, config, loaderState, idx, loadedModules,
    allTools, allHandlers, log, shell, serverTools, serverHandlers, exitCode,
    raised, response, calls, edits, restarts, prev, stats, api>>

installation == <<env, entry, impl>>

loader == <<config, loaderState, idx, loadedModules, allTools, allHandlers>>

NoError == [kind |-> "", errors |-> <<>>]

NoResponse ==
  [request |-> "none", name |-> "", invoked |-> UndefinedHandler,
   did |-> "", outcome |-> "", tools |-> <<>>]

NoPrev ==
  [valid |-> FALSE, config |-> DefaultConfig, returned |-> FALSE,
   tools |-> <<>>, handlers |-> EmptyObject]

\* the load activity a getStats() call can see: no loadModule call lies
\* between two moments with the same progress
LoadProgress == [loaderState |-> loaderState, idx |-> idx]

\* no getStats() call made yet
NoStats ==
  [calls |-> 0,
   value |-> [totalModules |-> 0, totalTools |-> 0, totalHandlers |-> 0,
              modules |-> <<>>],
   at |-> [loaderState |-> "Unloaded", idx |-> 0]]

(***************************************************************************)
(* BaseServerUtils (src/utils/baseServer.js), the API client.              *)
(***************************************************************************)
\* lifetime given to a validated API key and to a login token, in hours
ApiKeyTokenHours == 24
LoginTokenHours == 20

\* hours the clock of the model advances in one step
TickHours == LoginTokenHours \div 2

\* an HTTP request sent to the backend: where to, and its credential header
Request(to, auth) == [to |-> to, auth |-> auth]

\* the client after its constructor, in a process whose environment holds
\* keyEnv as MCP_API_KEY, the supervisor credentials ("none", "emailOnly"
\* or "both") and REQUIRE_AUTH === 'true' as requireAuthEnv; savedKey is the
\* key the latest successful login_user or configure_api_key obtained
ApiClient(keyEnv, credentials, requireAuthEnv) ==
  [keyEnv |-> keyEnv, credentials |-> credentials,
   requireAuthEnv |-> requireAuthEnv,
   initialized |-> FALSE, apiKey |-> "", jwtToken |-> "", tokenExpiry |-> 0,
   now |-> 0, requests |-> 0, requireAuth |-> FALSE, sent |-> <<>>,
   outcome |-> "", savedKey |-> ""]

\* the API client of a process without credentials
NoApi == ApiClient("", "none", FALSE)

\* process.env.NODE_ENV || 'production', compared with 'production'
IsProduction == env \in {"production", "unset"}

\* the environment getServerInfo() and the static startup log report
ServerEnvironment == IF env = "unset" THEN "production" ELSE env

\* validateConfiguration() ends the process
ConfigurationExits(a) ==
  /\ IsProduction
  /\ a.requireAuthEnv
  /\ a.keyEnv = ""
  /\ a.credentials # "both"

\* _ensureInitialized() when it returns
EnsureInitialized(a) ==
  IF a.initialized THEN a
  ELSE [a EXCEPT !.initialized = TRUE, !.apiKey = a.keyEnv]

\* jwtToken && tokenExpiry && Date.now() < tokenExpiry
TokenValid(a) == a.jwtToken # "" /\ a.tokenExpiry # 0 /\ a.now < a.tokenExpiry

\* apiKey && apiKey !== 'test-api-key-for-mcp'
UsableKey(a) == a.apiKey # "" /\ a.apiKey # "test-api-key-for-mcp"

\* the result of an authentication step: the client, the token returned and
\* the error thrown ("" when none)
AuthResult(a, token, thrown) == [api |-> a, token |-> token, thrown |-> thrown]

\* the supervisor/password part of ensureAuthentication()
PasswordLogin(a, loginOk) ==
  IF a.credentials = "both"
  THEN LET asked == [a EXCEPT !.sent = Append(@, Request("auth/login", "none"))]
       IN IF loginOk
          THEN AuthResult([asked EXCEPT !.jwtToken = "jwt",
                                        !.tokenExpiry = a.now + LoginTokenHours],
                          "jwt", "")
          ELSE AuthResult(asked, "", "AuthenticationRequired")
  ELSE AuthResult(a, "", "AuthenticationRequired")

\* ensureAuthentication() falling back to the password login in any
\* environment
EnsureAuthenticationFallback(a, testOk, loginOk) ==
  IF TokenValid(a) THEN AuthResult(a, a.jwtToken, "")
  ELSE IF a.apiKey # ""
  THEN LET asked == [a EXCEPT !.sent =
                       Append(@, Request("stats/platform", "X-API-Key"))]
       IN IF testOk
          THEN AuthResult([asked EXCEPT !.jwtToken = a.apiKey,
                                        !.tokenExpiry = a.now + ApiKeyTokenHours],
                          a.apiKey, "")
          ELSE PasswordLogin(asked, loginOk)
  ELSE PasswordLogin(a, loginOk)

\* ensureAuthentication(); testOk and loginOk tell how the backend answers
\* the key validation and the login
EnsureAuthentication(a, testOk, loginOk) ==
  IF TokenValid(a) THEN AuthResult(a, a.jwtToken, "")
  ELSE IF a.apiKey # ""
  THEN LET asked == [a EXCEPT !.sent =
                       Append(@, Request("stats/platform", "X-API-Key"))]
       IN IF testOk
          THEN AuthResult([asked EXCEPT !.jwtToken = a.apiKey,
                                        !.tokenExpiry = a.now + ApiKeyTokenHours],
                          a.apiKey, "")
          ELSE IF IsProduction
          THEN AuthResult(asked, "", "ApiKeyFailed")
          ELSE PasswordLogin(asked, loginOk)
  ELSE PasswordLogin(a, loginOk)

\* the credential header with the requireAuth parameter ignored
AttachAuthAlways(a, requireAuth, testOk, loginOk) ==
  IF UsableKey(a) THEN [api |-> a, auth |-> "X-API-Key", thrown |-> ""]
  ELSE LET r == EnsureAuthentication(a, testOk, loginOk)
       IN [api |-> r.api, auth |-> "Bearer", thrown |-> r.thrown]

\* the credential header makeApiRequest puts on the request
AttachAuth(a, requireAuth, testOk, loginOk) ==
  IF requireAuth
  THEN IF UsableKey(a) THEN [api |-> a, auth |-> "X-API-Key", thrown |-> ""]
       ELSE LET r == EnsureAuthentication(a, testOk, loginOk)
            IN [api |-> r.api, auth |-> "Bearer", thrown |-> r.thrown]
  ELSE IF UsableKey(a) THEN [api |-> a, auth |-> "X-API-Key", thrown |-> ""]
       ELSE IF TokenValid(a) THEN [api |-> a, auth |-> "Bearer", thrown |-> ""]
       ELSE [api |-> a, auth |-> "none", thrown |-> ""]

\* how the backend answers during one makeApiRequest call
Backends ==
  [testOk : BOOLEAN, loginOk : BOOLEAN, status : {"200", "401", "500", "none"},
   retestOk : BOOLEAN, reloginOk : BOOLEAN, retryOk : BOOLEAN]

\* the catch block refreshing on any 401, whatever header the request had
RecoverAnyHeader(a, auth, b) ==
  IF b.status = "401"
  THEN LET r == EnsureAuthentication(
                  [a EXCEPT !.jwtToken = "", !.tokenExpiry = 0],
                  b.retestOk, b.reloginOk)
       IN IF r.thrown # "" THEN [r.api EXCEPT !.outcome = "RefreshFailed"]
          ELSE [r.api EXCEPT
                  !.sent = Append(@, Request("endpoint", "Bearer")),
                  !.outcome = IF b.retryOk THEN "ok" ELSE "RefreshFailed"]
  ELSE IF b.status = "none" THEN [a EXCEPT !.outcome = "NetworkError"]
  ELSE [a EXCEPT !.outcome = "ApiRequestFailed"]

\* the catch block of makeApiRequest after the request in a failed
Recover(a, auth, b) ==
  IF b.status = "401" /\ auth = "Bearer"
  THEN LET r == EnsureAuthentication(
                  [a EXCEPT !.jwtToken = "", !.tokenExpiry = 0],
                  b.retestOk, b.reloginOk)
       IN IF r.thrown # "" THEN [r.api EXCEPT !.outcome = "RefreshFailed"]
          ELSE [r.api EXCEPT
                  !.sent = Append(@, Request("endpoint", "Bearer")),
                  !.outcome = IF b.retryOk THEN "ok" ELSE "RefreshFailed"]
  ELSE IF b.status = "none" THEN [a EXCEPT !.outcome = "NetworkError"]
  ELSE [a EXCEPT !.outcome = "ApiRequestFailed"]

\* makeApiRequest(endpoint, method, data, requireAuth) on an initialized
\* client: the client it leaves, with the requests sent and the outcome
MakeApiRequestResult(a, requireAuth, b) ==
  LET begun == [EnsureInitialized(a) EXCEPT !.requests = @ + 1,
                                           !.requireAuth = requireAuth,
                                           !.sent = <<>>, !.outcome = ""]
      h == AttachAuth(begun, requireAuth, b.testOk, b.loginOk)
      asked == [h.api EXCEPT !.sent = Append(@, Request("endpoint", h.auth))]
  IN IF h.thrown # "" THEN [h.api EXCEPT !.outcome = h.thrown]
     ELSE IF b.status = "200" THEN [asked EXCEPT !.outcome = "ok"]
     ELSE Recover(asked, h.auth, b)

\* saveApiKey(apiKey): the .env file is written and reloaded with override
\* unless the write throws; `this.baseUtils.apiKey = apiKey` goes through the
\* exported Proxy, which has a get trap only, so the assignment lands on the
\* Proxy's empty target and the instance every read is served from keeps
\* its apiKey
SaveApiKey(a, key, writes) ==
  [a EXCEPT !.keyEnv = IF writes THEN key ELSE @,
            !.savedKey = key]

\* loadConfig() without its catch block
LoadConfigParsedOnly(file) == file.doc

\* loadConfig(): the file is read and parsed, or the catch block answers
LoadConfig(file) == IF file.status = "ok" THEN file.doc ELSE DefaultConfig

\* what loadConfig() writes to stderr
LoadConfigLog(file) ==
  IF file.status = "ok" THEN <<>>
  ELSE <<LogLine("configWarning", "", <<>>, 0)>>

\* the state of a process right after `new AIarchiveMCPServer()`
Constructed ==
  /\ config = LoadConfig(configFile)
  /\ loaderState = "Unloaded"
  /\ idx = 0
  /\ loadedModules = <<>>
  /\ allTools = <<>>
  /\ allHandlers = EmptyObject
  /\ log = LoadConfigLog(configFile)
  /\ shell = "constructed"
  /\ serverTools = <<>>
  /\ serverHandlers = EmptyObject
  /\ exitCode = -1
  /\ raised = NoError
  /\ response = NoResponse
  /\ calls = 0
  /\ stats = NoStats

ImplChoices == {f \in [ProviderSet -> UNION {Impls[p] : p \in ProviderSet}] :
                  \A p \in ProviderSet : f[p] \in Impls[p]}

Init ==
  /\ env \in {"production", "development", "unset"}
  /\ entry \in {"dynamic", "static"}
  /\ impl \in ImplChoices
  /\ configFile \in {File("ok", c) :
                       c \in IF entry = "dynamic" THEN ConfigDocs
                             ELSE {DefaultConfig}}
  /\ restarts = 0
  /\ edits = 0
  /\ prev = NoPrev
  /\ api = NoApi
  /\ Constructed

(***************************************************************************)
(* Dynamic server: start() -> initialize() -> loadAllModules().            *)
(***************************************************************************)
\* start() up to the first module of loadAllModules
Start ==
  /\ entry = "dynamic"
  /\ shell = "constructed"
  /\ config.orderPresent \/ config.modulesPresent
  /\ shell' = "initializing"
  /\ loaderState' = "Loading"
  /\ idx' = 1
  /\ log' = Append(log, LogLine("loading", "", <<>>, 0))
  /\ UNCHANGED <<installation, stats, api, configFile, config, loadedModules, allTools,
                 allHandlers, serverTools, serverHandlers, exitCode, raised,
                 response, calls, edits, restarts, prev>>

moduleName == ModuleOrder(config)[idx]

InLoop ==
  /\ loaderState = "Loading"
  /\ idx \in DOMAIN ModuleOrder(config)
  /\ config.modulesPresent

\* one iteration of loadAllModules on a missing or disabled entry
SkipModule ==
  /\ InLoop
  /\ Disabled(config, moduleName)
  /\ log' = Append(log, LogLine("skip", moduleName, <<>>, 0))
  /\ idx' = idx + 1
  /\ UNCHANGED <<installation, stats, api, configFile, config, loaderState, loadedModules,
                 allTools, allHandlers, shell, serverTools, serverHandlers,
                 exitCode, raised, response, calls, edits, restarts, prev>>

\* what import() finds at ../tools/<name>/index.js on this installation
Built(name) ==
  IF name \in ProviderSet THEN impl[name]
  ELSE IF name \in OtherProviderSet THEN "ok" ELSE "nofile"

\* the result of loadModule for the current iteration
Attempt ==
  LoadModule(LoaderData(loadedModules, allTools, allHandlers, <<>>, ""),
             moduleName, Built(moduleName))

\* one iteration of loadAllModules in which loadModule returns
LoadModuleOk ==
  /\ InLoop
  /\ ~Disabled(config, moduleName)
  /\ Attempt.threw = ""
  /\ loadedModules' = Attempt.loadedModules
  /\ allTools' = Attempt.allTools
  /\ allHandlers' = Attempt.allHandlers
  /\ log' = log \o Attempt.lines \o
              <<LogLine("loaded", moduleName, <<>>,
                        GetModuleToolCount(Attempt.loadedModules, moduleName))>>
  /\ idx' = idx + 1
  /\ UNCHANGED <<installation, stats, api, configFile, config, loaderState, shell,
                 serverTools, serverHandlers, exitCode, raised, response,
                 calls, edits, restarts, prev>>

\* the production branch with `break` in place of `continue`
LoadModuleFailProductionBreak ==
  /\ InLoop
  /\ ~Disabled(config, moduleName)
  /\ Attempt.threw # ""
  /\ env = "production"
  /\ loadedModules' = Attempt.loadedModules
  /\ allTools' = Attempt.allTools
  /\ allHandlers' = Attempt.allHandlers
  /\ log' = log \o Attempt.lines \o
              <<LogLine("failed", moduleName, <<Attempt.threw>>, 0),
                LogLine("continuing", moduleName, <<>>, 0)>>
  /\ idx' = Len(ModuleOrder(config)) + 1
  /\ UNCHANGED <<installation, stats, api, configFile, config, loaderState, shell,
                 serverTools, serverHandlers, exitCode, raised, response,
                 calls, edits, restarts, prev>>

\* one iteration of loadAllModules in which loadModule throws, production
LoadModuleFailProduction ==
  /\ InLoop
  /\ ~Disabled(config, moduleName)
  /\ Attempt.threw # ""
  /\ env = "production"
  /\ loadedModules' = Attempt.loadedModules
  /\ allTools' = Attempt.allTools
  /\ allHandlers' = Attempt.allHandlers
  /\ log' = log \o Attempt.lines \o
              <<LogLine("failed", moduleName, <<Attempt.threw>>, 0),
                LogLine("continuing", moduleName, <<>>, 0)>>
  /\ idx' = idx + 1
  /\ UNCHANGED <<installation, stats, api, configFile, config, loaderState, shell,
                 serverTools, serverHandlers, exitCode, raised, response,
                 calls, edits, restarts, prev>>

\* the non-production branch with the error swallowed as in production
LoadModuleFailAbortSwallowed ==
  /\ InLoop
  /\ ~Disabled(config, moduleName)
  /\ Attempt.threw # ""
  /\ env # "production"
  /\ loadedModules' = Attempt.loadedModules
  /\ allTools' = Attempt.allTools
  /\ allHandlers' = Attempt.allHandlers
  /\ log' = log \o Attempt.lines \o
              <<LogLine("failed", moduleName, <<Attempt.threw>>, 0)>>
  /\ idx' = idx + 1
  /\ UNCHANGED <<installation, stats, api, configFile, config, loaderState, shell,
                 serverTools, serverHandlers, exitCode, raised, response,
                 calls, edits, restarts, prev>>

\* one iteration of loadAllModules in which loadModule throws, any other
\* mode: the error leaves loadAllModules, initialize() and start(), which
\* exits the process
LoadModuleFailAbort ==
  /\ InLoop
  /\ ~Disabled(config, moduleName)
  /\ Attempt.threw # ""
  /\ env # "production"
  /\ loadedModules' = Attempt.loadedModules
  /\ allTools' = Attempt.allTools
  /\ allHandlers' = Attempt.allHandlers
  /\ log' = log \o Attempt.lines \o
              <<LogLine("failed", moduleName, <<Attempt.threw>>, 0),
                LogLine("initFailed", "", <<Attempt.threw>>, 0),
                LogLine("startFailed", "", <<Attempt.threw>>, 0)>>
  /\ loaderState' = "Failed"
  /\ raised' = [kind |-> "load", errors |-> <<[tool |-> moduleName,
                                               message |-> Attempt.threw]>>]
  /\ shell' = "exited"
  /\ exitCode' = 1
  /\ UNCHANGED <<installation, stats, api, configFile, config, idx, serverTools,
                 serverHandlers, response, calls, edits, restarts, prev>>

\* what start() does with a TypeError that leaves loadAllModules
TypeErrorExit(lines) ==
  /\ loaderState' = "Failed"
  /\ raised' = [kind |-> "TypeError", errors |-> <<>>]
  /\ log' = log \o lines \o <<LogLine("initFailed", "", <<>>, 0),
                                LogLine("startFailed", "", <<>>, 0)>>
  /\ shell' = "exited"
  /\ exitCode' = 1
  /\ UNCHANGED <<installation, stats, api, configFile, config, idx,
                 loadedModules, allTools, allHandlers, serverTools,
                 serverHandlers, response, calls, edits, restarts, prev>>

\* start() on a configuration with neither moduleLoadOrder nor
\* enabledModules: Object.keys(undefined) throws
ModuleOrderTypeError ==
  /\ entry = "dynamic"
  /\ shell = "constructed"
  /\ ~config.orderPresent
  /\ ~config.modulesPresent
  /\ TypeErrorExit(<<LogLine("loading", "", <<>>, 0)>>)

\* one iteration of loadAllModules on a configuration without
\* enabledModules: reading enabledModules[moduleName] throws outside the try
ModuleConfigTypeError ==
  /\ loaderState = "Loading"
  /\ idx \in DOMAIN ModuleOrder(config)
  /\ ~config.modulesPresent
  /\ TypeErrorExit(<<>>)

\* loadAllModules returns; initialize() takes the catalog and validates it
InitializeFinish ==
  /\ loaderState = "Loading"
  /\ idx = Len(ModuleOrder(config)) + 1
  /\ loaderState' = "Loaded"
  /\ serverTools' = allTools
  /\ serverHandlers' = allHandlers
  /\ LET errors == ValidationErrors(allTools)
         summary == LogLine("initialized", "", <<>>, Len(allTools))
     IN IF Len(errors) > 0
        THEN /\ raised' = [kind |-> "validation", errors |-> errors]
             /\ log' = log \o <<summary,
                                LogLine("initFailed", "", <<>>, 0),
                                LogLine("startFailed", "", <<>>, 0)>>
             /\ shell' = "exited"
             /\ exitCode' = 1
        ELSE /\ raised' = raised
             /\ log' = log \o <<summary,
                                LogLine("complete", "", <<>>, 0)>>
             /\ shell' = "initialized"
             /\ exitCode' = exitCode
  /\ UNCHANGED <<installation, stats, api, configFile, config, idx, loadedModules,
                 allTools, allHandlers, response, calls, edits, restarts,
                 prev>>

\* start() that connects the transport without awaiting initialize()
ConnectWithoutAwait ==
  /\ shell \in {"initializing", "initialized"}
  /\ shell' = "connected"
  /\ log' = Append(log, LogLine("running", "", <<>>, Len(serverTools)))
  /\ UNCHANGED <<installation, stats, api, configFile, loader, serverTools,
                 serverHandlers, exitCode, raised, response, calls, edits,
                 restarts, prev>>

\* await this.server.connect(transport)
Connect ==
  /\ shell = "initialized"
  /\ shell' = "connected"
  /\ log' = Append(log, LogLine("running", "", <<>>, Len(serverTools)))
  /\ UNCHANGED <<installation, stats, api, configFile, loader, serverTools,
                 serverHandlers, exitCode, raised, response, calls, edits,
                 restarts, prev>>

(***************************************************************************)
(* Static server: initialize() of src/server-static.js.                    *)
(***************************************************************************)
\* one iteration of the loop of initialize() over the imported classes
StaticLoadOne(l, name, built) ==
  LET at == ThrowsAt(built)
      tools == ToolDefinitions(name, built)
      handlers == ToolHandlers(name, built)
  IN IF at \in {"constructor", "getToolDefinitions", "getToolHandlers",
                "toolNames"}
     THEN [l EXCEPT !.lines = Append(@, LogLine("failed", name, <<>>, 0))]
     ELSE [l EXCEPT
             !.allTools = @ \o tools,
             !.allHandlers = IF at = "handlerNames" THEN @
                             ELSE ObjectAssign(@, handlers),
             !.lines = Append(@, LogLine("loaded", name, <<>>, Len(tools)))]

\* the loop of initialize() over modules[from..]
RECURSIVE StaticLoadAll(_, _, _)
StaticLoadAll(l, modules, built) ==
  IF modules = <<>> THEN l
  ELSE StaticLoadAll(StaticLoadOne(l, Head(modules), built[Head(modules)]),
                     Tail(modules), built)

\* a static import that cannot be resolved ends the process before start()
StaticImportFail ==
  /\ entry = "static"
  /\ shell = "constructed"
  /\ \E p \in ProviderSet : ThrowsAt(impl[p]) \in {"existsSync", "default"}
  /\ shell' = "exited"
  /\ exitCode' = 1
  /\ raised' = [kind |-> "import", errors |-> <<>>]
  /\ UNCHANGED <<installation, stats, api, configFile, loader, log, serverTools,
                 serverHandlers, response, calls, edits, restarts, prev>>

\* start() up to the end of initialize()
StaticInitialize ==
  /\ entry = "static"
  /\ shell = "constructed"
  /\ \A p \in ProviderSet : ThrowsAt(impl[p]) \notin {"existsSync", "default"}
  /\ LET l == StaticLoadAll(
                LoaderData(<<>>, serverTools, serverHandlers,
                           <<LogLine("loading", "", <<>>, 0)>>, ""),
                Providers, impl)
     IN /\ serverTools' = l.allTools
        /\ serverHandlers' = l.allHandlers
        /\ log' = log \o l.lines \o
                    <<LogLine("initialized", "", <<>>, Len(l.allTools))>>
  /\ shell' = "initialized"
  /\ UNCHANGED <<installation, stats, api, configFile, loader, exitCode, raised,
                 response, calls, edits, restarts, prev>>

(***************************************************************************)
(* Requests served once the transport is connected.                        *)
(***************************************************************************)
\* tool names that requests ask for
CallNames ==
  {"search_papers", "submit_paper", "legacy_agent", "toString", "no_such_tool"}

\* what a handler does when it is invoked
HandlerOutcomes(handler) ==
  IF handler.owner = "Object.prototype"
  THEN IF handler.name \in {"constructor", "toString"}
       THEN {"returns"} ELSE {"throwsError"}
  ELSE {"returns", "throwsMcpError", "throwsError"}

\* ListToolsRequestSchema handler
ListTools ==
  /\ shell = "connected"
  /\ calls < MaxCalls
  /\ calls' = calls + 1
  /\ response' = [NoResponse EXCEPT !.request = "ListTools",
                                    !.outcome = "result",
                                    !.tools = serverTools]
  /\ UNCHANGED <<installation, stats, api, configFile, loader, log, shell, serverTools,
                 serverHandlers, exitCode, raised, edits, restarts, prev>>

\* CallToolRequestSchema handler, no handler found under the name
CallToolUnknown(name) ==
  /\ shell = "connected"
  /\ calls < MaxCalls
  /\ Lookup(serverHandlers, name) = UndefinedHandler
  /\ calls' = calls + 1
  /\ response' = [NoResponse EXCEPT !.request = "CallTool", !.name = name,
                                    !.outcome = "MethodNotFound"]
  /\ log' = IF entry = "dynamic"
            THEN Append(log, LogLine("toolFailed", name, <<>>, 0)) ELSE log
  /\ UNCHANGED <<installation, stats, api, configFile, loader, shell, serverTools,
                 serverHandlers, exitCode, raised, edits, restarts, prev>>

\* a CallTool handler whose catch block re-throws whatever it caught
CallToolInvokeRethrow(name, does) ==
  /\ shell = "connected"
  /\ calls < MaxCalls
  /\ Lookup(serverHandlers, name) # UndefinedHandler
  /\ does \in HandlerOutcomes(Lookup(serverHandlers, name))
  /\ calls' = calls + 1
  /\ response' = [NoResponse EXCEPT
                    !.request = "CallTool", !.name = name,
                    !.invoked = Lookup(serverHandlers, name),
                    !.did = does,
                    !.outcome = CASE does = "returns" -> "result"
                                  [] does = "throwsMcpError" -> "McpError"
                                  [] OTHER -> "Error"]
  /\ log' = IF entry = "dynamic" /\ does # "returns"
            THEN Append(log, LogLine("toolFailed", name, <<>>, 0)) ELSE log
  /\ UNCHANGED <<installation, stats, api, configFile, loader, shell, serverTools,
                 serverHandlers, exitCode, raised, edits, restarts, prev>>

\* CallToolRequestSchema handler, the handler found is invoked
CallToolInvoke(name, does) ==
  /\ shell = "connected"
  /\ calls < MaxCalls
  /\ Lookup(serverHandlers, name) # UndefinedHandler
  /\ does \in HandlerOutcomes(Lookup(serverHandlers, name))
  /\ calls' = calls + 1
  /\ response' = [NoResponse EXCEPT
                    !.request = "CallTool", !.name = name,
                    !.invoked = Lookup(serverHandlers, name),
                    !.did = does,
                    !.outcome = CASE does = "returns" -> "result"
                                  [] does = "throwsMcpError" -> "McpError"
                                  [] OTHER -> "InternalError"]
  /\ log' = IF entry = "dynamic" /\ does # "returns"
            THEN Append(log, LogLine("toolFailed", name, <<>>, 0)) ELSE log
  /\ UNCHANGED <<installation, stats, api, configFile, loader, shell, serverTools,
                 serverHandlers, exitCode, raised, edits, restarts, prev>>

CallTool ==
  \E name \in CallNames :
    \/ CallToolUnknown(name)
    \/ \E does \in {"returns", "throwsMcpError", "throwsError"} :
         CallToolInvoke(name, does)

Next ==
  \/ Start
  \/ SkipModule
  \/ LoadModuleOk
  \/ LoadModuleFailProduction
  \/ LoadModuleFailAbort
  \/ InitializeFinish
  \/ Connect
  \/ StaticImportFail
  \/ StaticInitialize
  \/ ListTools
  \/ CallTool

Spec == Init /\ [][Next]_vars

(***************************************************************************)
(* Process restarts with the configuration file edited in between.         *)
(***************************************************************************)
\* the operator sets enabledModules[p].enabled in tools-config.json
EditConfig(p, flag) ==
  /\ edits < MaxEdits
  /\ \E i \in DOMAIN configFile.doc.enabledModules :
       /\ configFile.doc.enabledModules[i].name = p
       /\ configFile.doc.enabledModules[i].enabled # flag
  /\ configFile' =
       [configFile EXCEPT !.doc.enabledModules =
          [i \in DOMAIN @ |-> IF @[i].name = p THEN ModuleEntry(p, flag)
                              ELSE @[i]]]
  /\ edits' = edits + 1
  /\ UNCHANGED <<installation, stats, api, loader, log, shell, serverTools,
                 serverHandlers, exitCode, raised, response, calls, restarts,
                 prev>>

\* the process has ended (exit or signal) and the server is started again
Restart ==
  /\ restarts < MaxRestarts
  /\ shell \in {"connected", "exited"}
  /\ restarts' = restarts + 1
  /\ prev' = [valid |-> TRUE, config |-> config,
              returned |-> loaderState = "Loaded",
              tools |-> allTools, handlers |-> allHandlers]
  /\ config' = LoadConfig(configFile)
  /\ loaderState' = "Unloaded"
  /\ idx' = 0
  /\ loadedModules' = <<>>
  /\ allTools' = <<>>
  /\ allHandlers' = EmptyObject
  /\ log' = LoadConfigLog(configFile)
  /\ shell' = "constructed"
  /\ serverTools' = <<>>
  /\ serverHandlers' = EmptyObject
  /\ exitCode' = -1
  /\ raised' = NoError
  /\ response' = NoResponse
  /\ calls' = 0
  /\ stats' = NoStats
  /\ UNCHANGED <<installation, api, configFile, edits>>

ReloadImpls ==
  [search |-> {"ok", "nofile"}, papers |-> {"ok", "missing"},
   agents |-> {"ok", "extra", "shadow"}]

\* the configuration files the restart scenarios start from: every provider
\* has an entry with a boolean flag
ReloadConfigDocs ==
  {c \in ConfigDocs :
     /\ EnabledKeys(c) = Providers
     /\ \A i \in DOMAIN c.enabledModules : c.enabledModules[i].enabled # "missing"
     /\ c.orderPresent => c.moduleLoadOrder \in {Providers, <<"agents", "ghost", "search">>}}

InitReload ==
  /\ env \in {"production", "development"}
  /\ entry = "dynamic"
  /\ impl \in {f \in ImplChoices : \A p \in ProviderSet : f[p] \in ReloadImpls[p]}
  /\ configFile \in {File("ok", c) : c \in ReloadConfigDocs}
  /\ restarts = 0
  /\ edits = 0
  /\ prev = NoPrev
  /\ api = NoApi
  /\ Constructed

NextReload ==
  \/ Start
  \/ SkipModule
  \/ LoadModuleOk
  \/ LoadModuleFailProduction
  \/ LoadModuleFailAbort
  \/ InitializeFinish
  \/ Connect
  \/ ListTools
  \/ CallTool
  \/ \E p \in ProviderSet, flag \in {"true", "false"} : EditConfig(p, flag)
  \/ Restart

SpecReload == InitReload /\ [][NextReload]_vars

(***************************************************************************)
(* Configuration management and introspection on a live loader.            *)
(***************************************************************************)
\* config.enabledModules[name].enabled = enabled
SetEnabled(c, name, enabled) ==
  [c EXCEPT !.enabledModules =
     [i \in DOMAIN @ |-> IF @[i].name = name THEN ModuleEntry(name, enabled)
                         ELSE @[i]]]

\* `if (this.config.enabledModules[moduleName])`
HasModuleConfig(c, name) ==
  LET moduleConfig == ModuleConfig(c, name)
  IN moduleConfig.found # "none" /\ moduleConfig.enabled # "null"

\* the value updateModuleConfig returns
UpdateResult(c, name) ==
  IF ~HasModuleConfig(c, name) THEN "false"
  ELSE IF ModuleConfig(c, name).enabled = "primitive" THEN "TypeError"
  ELSE "true"

\* updateModuleConfig that also drops a disabled module from the catalog
UpdateModuleConfigUnload(name, enabled, writes) ==
  /\ entry = "dynamic"
  /\ shell # "exited"
  /\ edits < MaxEdits
  /\ config.modulesPresent
  /\ edits' = edits + 1
  /\ response' = [NoResponse EXCEPT !.request = "updateModuleConfig",
                                    !.name = name,
                                    !.outcome = UpdateResult(config, name)]
  /\ config' = IF UpdateResult(config, name) = "true"
               THEN SetEnabled(config, name, enabled) ELSE config
  /\ configFile' = IF UpdateResult(config, name) = "true" /\ writes
                   THEN File("ok", config') ELSE configFile
  /\ log' = IF UpdateResult(config, name) = "true" /\ ~writes
            THEN Append(log, LogLine("saveFailed", "", <<>>, 0)) ELSE log
  /\ allTools' = IF UpdateResult(config, name) = "true" /\ enabled = "false"
                 THEN SelectSeq(allTools, LAMBDA t : t.owner # name)
                 ELSE allTools
  /\ UNCHANGED <<installation, stats, api, loaderState, idx, loadedModules,
                 allHandlers, shell, serverTools, serverHandlers, exitCode,
                 raised, calls, restarts, prev>>

\* updateModuleConfig(moduleName, enabled); writes tells whether
\* writeFileSync in saveConfig succeeds
UpdateModuleConfig(name, enabled, writes) ==
  /\ entry = "dynamic"
  /\ shell # "exited"
  /\ edits < MaxEdits
  /\ config.modulesPresent
  /\ edits' = edits + 1
  /\ response' = [NoResponse EXCEPT !.request = "updateModuleConfig",
                                    !.name = name,
                                    !.outcome = UpdateResult(config, name)]
  /\ config' = IF UpdateResult(config, name) = "true"
               THEN SetEnabled(config, name, enabled) ELSE config
  /\ configFile' = IF UpdateResult(config, name) = "true" /\ writes
                   THEN File("ok", config') ELSE configFile
  /\ log' = IF UpdateResult(config, name) = "true" /\ ~writes
            THEN Append(log, LogLine("saveFailed", "", <<>>, 0)) ELSE log
  /\ UNCHANGED <<installation, stats, api, loaderState, idx, loadedModules,
                 allTools, allHandlers, shell, serverTools, serverHandlers,
                 exitCode, raised, calls, restarts, prev>>

\* names updateModuleConfig is called with
ToggleNames == {"papers", "agents", "ghost", "constructor"}

\* a getStats() call
GetStatsCall ==
  /\ entry = "dynamic"
  /\ shell # "exited"
  /\ stats.calls < MaxStats
  /\ config.modulesPresent
  /\ stats' = [calls |-> stats.calls + 1,
               value |-> GetStats(config, loadedModules, allTools, allHandlers),
               at |-> LoadProgress]
  /\ UNCHANGED <<installation, api, configFile, loader, log, shell,
                 serverTools, serverHandlers, exitCode, raised, response,
                 calls, edits, restarts, prev>>

AdminImpls ==
  [search |-> {"ok", "nofile"}, papers |-> {"ok"}, agents |-> {"ok"}]

\* the configuration files the management scenarios start from
AdminConfigDocs ==
  {c \in ReloadConfigDocs :
     /\ c.orderPresent
     /\ c.moduleLoadOrder = Providers
     /\ ModuleConfig(c, "search").enabled = "true"
     /\ ModuleConfig(c, "agents").enabled = "false"}

InitAdmin ==
  /\ env \in {"production", "development"}
  /\ entry = "dynamic"
  /\ impl \in {f \in ImplChoices : \A p \in ProviderSet : f[p] \in AdminImpls[p]}
  /\ configFile \in {File("ok", c) : c \in AdminConfigDocs}
  /\ restarts = 0
  /\ edits = 0
  /\ prev = NoPrev
  /\ api = NoApi
  /\ Constructed

NextAdmin ==
  \/ Start
  \/ SkipModule
  \/ LoadModuleOk
  \/ LoadModuleFailProduction
  \/ LoadModuleFailAbort
  \/ InitializeFinish
  \/ Connect
  \/ ListTools
  \/ CallTool
  \/ \E name \in ToggleNames, enabled \in {"true", "false"}, writes \in BOOLEAN :
       UpdateModuleConfig(name, enabled, writes)
  \/ Restart

SpecAdmin == InitAdmin /\ [][NextAdmin]_vars

\* one process whose loader is toggled and asked for its statistics
NextStats ==
  \/ Start
  \/ SkipModule
  \/ LoadModuleOk
  \/ LoadModuleFailProduction
  \/ LoadModuleFailAbort
  \/ InitializeFinish
  \/ Connect
  \/ \E name \in ToggleNames, enabled \in {"true", "false"}, writes \in BOOLEAN :
       UpdateModuleConfig(name, enabled, writes)
  \/ GetStatsCall

SpecStats == InitAdmin /\ [][NextStats]_vars

(***************************************************************************)
(* Tool handlers using the API client.                                     *)
(***************************************************************************)
\* the first use of the client in a process that validateConfiguration()
\* ends with process.exit(1)
ApiRequestExits(requireAuth) ==
  /\ shell # "exited"
  /\ api.requests < MaxRequests
  /\ ~api.initialized
  /\ ConfigurationExits(api)
  /\ api' = [api EXCEPT !.requests = @ + 1, !.requireAuth = requireAuth,
                        !.sent = <<>>, !.outcome = "exit"]
  /\ shell' = "exited"
  /\ exitCode' = 1
  /\ UNCHANGED <<installation, stats, configFile, loader, log, serverTools,
                 serverHandlers, raised, response, calls, edits, restarts,
                 prev>>

\* a makeApiRequest call made by a tool handler
MakeApiRequest(requireAuth, b) ==
  /\ shell # "exited"
  /\ api.requests < MaxRequests
  /\ api.initialized \/ ~ConfigurationExits(api)
  /\ api' = MakeApiRequestResult(api, requireAuth, b)
  /\ UNCHANGED <<installation, stats, configFile, loader, log, shell,
                 serverTools, serverHandlers, exitCode, raised, response,
                 calls, edits, restarts, prev>>

\* the API keys a login or a configure_api_key call can bring
LoginKeys == {"ai-archive_new"}

\* login_user or configure_api_key completing successfully: their requests
\* go to `${this.baseUtils.apiBaseUrl}...`, a field only _ensureInitialized
\* assigns, so they can succeed on an initialized client only
LoginUser(key, writes) ==
  /\ shell # "exited"
  /\ api.initialized
  /\ api' = SaveApiKey(api, key, writes)
  /\ UNCHANGED <<installation, stats, configFile, loader, log, shell,
                 serverTools, serverHandlers, exitCode, raised, response,
                 calls, edits, restarts, prev>>

\* time passes
Tick ==
  /\ shell # "exited"
  /\ api.now + TickHours <= MaxClock
  /\ api' = [api EXCEPT !.now = @ + TickHours]
  /\ UNCHANGED <<installation, stats, configFile, loader, log, shell,
                 serverTools, serverHandlers, exitCode, raised, response,
                 calls, edits, restarts, prev>>

InitApi ==
  /\ env \in {"production", "development", "unset"}
  /\ entry = "dynamic"
  /\ impl = [p \in ProviderSet |-> "ok"]
  /\ configFile = File("ok", DefaultConfig)
  /\ restarts = 0
  /\ edits = 0
  /\ prev = NoPrev
  /\ api \in {ApiClient(k, c, r) :
                k \in {"", "key", "test-api-key-for-mcp"},
                c \in {"none", "emailOnly", "both"}, r \in BOOLEAN}
  /\ Constructed

NextApi ==
  \/ \E requireAuth \in BOOLEAN : ApiRequestExits(requireAuth)
  \/ \E requireAuth \in BOOLEAN, b \in Backends : MakeApiRequest(requireAuth, b)
  \/ \E key \in LoginKeys, writes \in BOOLEAN : LoginUser(key, writes)
  \/ Tick

SpecApi == InitApi /\ [][NextApi]_vars

(***************************************************************************)
(* One process started on any content of tools-config.json.                *)
(***************************************************************************)
\* a document of the shape the loader expects, with nothing in it
EmptyDoc == Config(<<>>, FALSE, <<>>)

\* entries that are not of the shape {enabled: boolean}: the entry of
\* papers is null, the entry of agents is a string
MalformedEntries ==
  <<ModuleEntry("search", "true"), ModuleEntry("papers", "null"),
    ModuleEntry("agents", "primitive")>>

ConfigFiles ==
  {File("unreadable", EmptyDoc), File("corrupt", EmptyDoc)}
    \cup {File("ok", c) :
            c \in {ConfigWithoutModules(FALSE, <<>>),
                   ConfigWithoutModules(TRUE, <<>>),
                   ConfigWithoutModules(TRUE, <<"search", "papers">>),
                   EmptyDoc,
                   Config(MalformedEntries, FALSE, <<>>),
                   Config(MalformedEntries, TRUE, Providers),
                   Config(<<ModuleEntry("agents", "true"),
                            ModuleEntry("search", "missing")>>, TRUE,
                          <<"search", "agents", "ghost">>)}}

ConfigImpls ==
  [search |-> {"ok", "nofile"}, papers |-> {"ok", "defsThrow"},
   agents |-> {"ok", "malformed"}]

InitConfig ==
  /\ env \in {"production", "development", "unset"}
  /\ entry = "dynamic"
  /\ impl \in {f \in ImplChoices : \A p \in ProviderSet : f[p] \in ConfigImpls[p]}
  /\ configFile \in ConfigFiles
  /\ restarts = 0
  /\ edits = 0
  /\ prev = NoPrev
  /\ api = NoApi
  /\ Constructed

NextConfig ==
  \/ Start
  \/ ModuleOrderTypeError
  \/ ModuleConfigTypeError
  \/ SkipModule
  \/ LoadModuleOk
  \/ LoadModuleFailProduction
  \/ LoadModuleFailAbort
  \/ InitializeFinish
  \/ Connect

SpecConfig == InitConfig /\ [][NextConfig]_vars

(***************************************************************************)
(* Reference notions used by the properties.                               *)
(***************************************************************************)
\* the entry of name in enabledModules has `enabled: true`
EnabledInFile(c, name) ==
  \E i \in DOMAIN c.enabledModules :
    c.enabledModules[i].name = name /\ c.enabledModules[i].enabled = "true"

\* the builds of a provider whose load throws
FailingImpls ==
  {"nofile", "nodefault", "ctorThrows", "defsThrow", "handlersThrow",
   "badDefs", "badHandlers"}

\* loading provider name cannot succeed on this installation
Fails(name) == Built(name) \in FailingImpls

\* the load order the configuration asks for
ConfiguredOrder(c) ==
  IF c.orderPresent THEN c.moduleLoadOrder
  ELSE [i \in DOMAIN c.enabledModules |-> c.enabledModules[i].name]

\* the subsequence of seq whose elements satisfy keep
RECURSIVE SelectNames(_, _)
SelectNames(seq, keep) ==
  IF seq = <<>> THEN <<>>
  ELSE (IF Head(seq) \in keep THEN <<Head(seq)>> ELSE <<>>)
         \o SelectNames(Tail(seq), keep)

\* tools(p1) ++ ... ++ tools(pn)
RECURSIVE ConcatTools(_)
ConcatTools(order) ==
  IF order = <<>> THEN <<>>
  ELSE ToolDefinitions(Head(order), Built(Head(order)))
         \o ConcatTools(Tail(order))

\* names provider p registers handlers under
HandlerNamesOf(p) == {e.name : e \in Range(ToolHandlers(p, Built(p)))}

\* the handler mapping obtained from the providers of order: each name maps
\* to the handler of the last provider of order that registers it
MergedHandlers(order) ==
  [n \in UNION {HandlerNamesOf(order[i]) : i \in DOMAIN order} |->
     LET last == CHOOSE i \in DOMAIN order :
                   /\ n \in HandlerNamesOf(order[i])
                   /\ \A j \in DOMAIN order :
                        n \in HandlerNamesOf(order[j]) => j <= i
     IN Handler(order[last], n)]

\* the lines of the log of the given kinds, as the modules they name
RECURSIVE ModulesLogged(_, _)
ModulesLogged(lines, kinds) ==
  IF lines = <<>> THEN <<>>
  ELSE (IF Head(lines).kind \in kinds THEN <<Head(lines).module>> ELSE <<>>)
         \o ModulesLogged(Tail(lines), kinds)

\* the providers loadModule was called for, in call order
Attempted == ModulesLogged(log, {"loaded", "failed"})

(***************************************************************************)
(* C1  Order preservation: when every provider of the configured load      *)
(* order is enabled and loads, the tool sequence returned by               *)
(* loadAllModules and served by ListTools is tools(p1) ++ ... ++ tools(pn) *)
(* in configured order (key order of enabledModules when moduleLoadOrder   *)
(* is absent).                                                             *)
(***************************************************************************)
AllEnabledAndLoadable(c) ==
  \A i \in DOMAIN ConfiguredOrder(c) :
    EnabledInFile(c, ConfiguredOrder(c)[i]) /\ ~Fails(ConfiguredOrder(c)[i])

OrderPreservation ==
  (entry = "dynamic" /\ loaderState = "Loaded" /\ AllEnabledAndLoadable(config))
    => /\ allTools = ConcatTools(ConfiguredOrder(config))
       /\ serverTools = ConcatTools(ConfiguredOrder(config))
       /\ response.request = "ListTools"
            => response.tools = ConcatTools(ConfiguredOrder(config))

OrderPreservationWitness ==
  /\ entry = "dynamic"
  /\ loaderState = "Loaded"
  /\ AllEnabledAndLoadable(config)
  /\ ~config.orderPresent
  /\ ConfiguredOrder(config) = <<"papers", "agents", "search">>
  /\ response.request = "ListTools"
  /\ Len(response.tools) = 15

(***************************************************************************)
(* C2  Load atomicity: a loadModule call that fails leaves the tool        *)
(* sequence, the handler mapping and loadedModules exactly as they were,   *)
(* in production and in non-production mode.                               *)
(***************************************************************************)
\* the current iteration calls loadModule for a provider that cannot load
FailingAttempt ==
  /\ entry = "dynamic"
  /\ loaderState = "Loading"
  /\ idx \in DOMAIN ConfiguredOrder(config)
  /\ EnabledInFile(config, ConfiguredOrder(config)[idx])
  /\ Fails(ConfiguredOrder(config)[idx])

LoadAtomicity ==
  [][FailingAttempt =>
       /\ allTools' = allTools
       /\ allHandlers' = allHandlers
       /\ loadedModules' = loadedModules]_vars

LoadAtomicityWitness ==
  /\ loaderState = "Failed"
  /\ env = "unset"
  /\ impl["agents"] = "handlersThrow"
  /\ Attempted = <<"search", "papers", "agents">>
  /\ Len(allTools) = 12
  /\ Len(loadedModules) = 2

(***************************************************************************)
(* C3  Failure isolation in production mode: loadAllModules never throws,  *)
(* every enabled provider is attempted, the catalog is the one obtained    *)
(* from the enabled providers that load, in configured order, and every    *)
(* failure is logged with the provider's name.                             *)
(***************************************************************************)
EnabledNames(c) ==
  {n \in Range(ConfiguredOrder(c)) : EnabledInFile(c, n)}

LoadableNames(c) == {n \in EnabledNames(c) : ~Fails(n)}

ProductionIsolation ==
  (entry = "dynamic" /\ env = "production")
    => /\ loaderState # "Failed"
       /\ raised.kind # "load"
       /\ loaderState = "Loaded"
            => LET order == ConfiguredOrder(config)
                   good == SelectNames(order, LoadableNames(config))
               IN /\ allTools = ConcatTools(good)
                  /\ allHandlers = MergedHandlers(good)
                  /\ serverTools = allTools
                  /\ serverHandlers = allHandlers
                  /\ Attempted = SelectNames(order, EnabledNames(config))
                  /\ ModulesLogged(log, {"failed"}) =
                       SelectNames(order, EnabledNames(config) \ LoadableNames(config))

ProductionIsolationWitness ==
  /\ entry = "dynamic"
  /\ env = "production"
  /\ loaderState = "Loaded"
  /\ ConfiguredOrder(config) = <<"search", "papers", "agents">>
  /\ ModulesLogged(log, {"failed"}) = <<"search", "papers">>
  /\ ModulesLogged(log, {"loaded"}) = <<"agents">>
  /\ Len(allTools) = 3

(***************************************************************************)
(* C4  Failure propagation in non-production mode: the first enabled       *)
(* provider that fails makes loadAllModules throw; no later provider is    *)
(* attempted, the loader is Failed and never Loaded, the transport is      *)
(* never connected and start() exits the process with code 1.              *)
(***************************************************************************)
FailingPositions(c) ==
  {i \in DOMAIN ConfiguredOrder(c) :
     EnabledInFile(c, ConfiguredOrder(c)[i]) /\ Fails(ConfiguredOrder(c)[i])}

FirstFailing(c) ==
  CHOOSE i \in FailingPositions(c) : \A j \in FailingPositions(c) : i <= j

StaticFailing ==
  {p \in ProviderSet :
     impl[p] \in {"ctorThrows", "defsThrow", "handlersThrow", "badDefs"}}

ModuleErrorIsolation ==
  /\ raised.kind # "load"
  /\ loaderState # "Failed"
  /\ shell = "connected"
       => serverTools =
            IF entry = "dynamic"
            THEN ConcatTools(SelectNames(ConfiguredOrder(config),
                                         LoadableNames(config)))
            ELSE ConcatTools(SelectNames(Providers, ProviderSet \ StaticFailing))

(***************************************************************************)
(* C6  Skip semantics: of two fresh loads whose configurations differ only *)
(* by provider p being disabled in one, the catalog with p disabled is the *)
(* other catalog with exactly p's tools and p's handlers removed, whatever *)
(* names the providers share; re-enabling p gives the first catalog back.  *)
(***************************************************************************)
\* c2 is c with the `enabled: true` of p turned into `enabled: false`
DisablesOnly(c, c2, p) ==
  /\ c.orderPresent = c2.orderPresent
  /\ c.moduleLoadOrder = c2.moduleLoadOrder
  /\ DOMAIN c.enabledModules = DOMAIN c2.enabledModules
  /\ \A i \in DOMAIN c.enabledModules :
       IF c.enabledModules[i].name = p
       THEN /\ c.enabledModules[i].enabled = "true"
            /\ c2.enabledModules[i] = ModuleEntry(p, "false")
       ELSE c.enabledModules[i] = c2.enabledModules[i]
  /\ \E i \in DOMAIN c.enabledModules : c.enabledModules[i].name = p

RECURSIVE ToolsWithout(_, _)
ToolsWithout(tools, p) ==
  IF tools = <<>> THEN <<>>
  ELSE (IF Head(tools).owner = p THEN <<>> ELSE <<Head(tools)>>)
         \o ToolsWithout(Tail(tools), p)

HandlersWithout(handlers, p) ==
  [n \in {m \in DOMAIN handlers : handlers[m].owner # p} |-> handlers[n]]

SkipSemantics ==
  \A p \in ProviderSet :
    (prev.valid /\ prev.returned /\ loaderState = "Loaded")
      => /\ DisablesOnly(prev.config, config, p)
              => /\ allTools = ToolsWithout(prev.tools, p)
                 /\ allHandlers = HandlersWithout(prev.handlers, p)
         /\ DisablesOnly(config, prev.config, p)
              => /\ prev.tools = ToolsWithout(allTools, p)
                 /\ prev.handlers = HandlersWithout(allHandlers, p)

(***************************************************************************)
(* C7  Skipping is never an error: an iteration on a name whose entry is   *)
(* absent from enabledModules or whose `enabled` is falsy or missing       *)
(* attempts no load, raises nothing in any mode, logs the skip line with   *)
(* the name and leaves tools, handlers and loadedModules unchanged; with   *)
(* search enabled and papers disabled the catalog has the 4 tools of       *)
(* search and getStats().totalModules is 1.                                *)
(***************************************************************************)
SkipIteration ==
  /\ entry = "dynamic"
  /\ loaderState = "Loading"
  /\ idx \in DOMAIN ConfiguredOrder(config)
  /\ ~EnabledInFile(config, ConfiguredOrder(config)[idx])

ScenarioA ==
  /\ entry = "dynamic"
  /\ loaderState = "Loaded"
  /\ config.orderPresent
  /\ config.moduleLoadOrder = <<"search", "papers">>
  /\ EnabledInFile(config, "search")
  /\ ~EnabledInFile(config, "papers")
  /\ impl["search"] = "ok"

SkipNeverAnError ==
  /\ [][SkipIteration =>
          /\ log' = Append(log, LogLine("skip", ConfiguredOrder(config)[idx],
                                        <<>>, 0))
          /\ idx' = idx + 1
          /\ allTools' = allTools
          /\ allHandlers' = allHandlers
          /\ loadedModules' = loadedModules
          /\ loaderState' = "Loading"
          /\ raised' = NoError
          /\ exitCode' = -1]_vars
  /\ [](ScenarioA =>
          /\ Len(allTools) = 4
          /\ Len(serverTools) = 4
          /\ GetStats(config, loadedModules, allTools, allHandlers).totalModules = 1)

SkipNeverAnErrorWitness ==
  /\ ScenarioA
  /\ env = "unset"
  /\ ModulesLogged(log, {"skip"}) = <<"papers">>
  /\ Attempted = <<"search">>
  /\ shell = "connected"

(***************************************************************************)
(* C8  Missing-handler diagnostics: a provider whose handler mapping omits *)
(* a name of its definitions loads; a warning names every such tool; the   *)
(* tool is listed; getHandlerByName returns undefined for it and a         *)
(* CallTool request for it is answered with MethodNotFound.                *)
(***************************************************************************)
MissingHandlerDiagnostics ==
  \A i \in DOMAIN loadedModules :
    LET m == loadedModules[i]
        defined == {m.tools[j].name : j \in DOMAIN m.tools}
        handled == {m.handlers[j].name : j \in DOMAIN m.handlers}
    IN \A n \in defined \ handled :
         /\ \E k \in DOMAIN log :
              /\ log[k].kind = "missingHandlers"
              /\ log[k].module = m.name
              /\ n \in Range(log[k].names)
         /\ \E j \in DOMAIN allTools : allTools[j].name = n
         /\ GetHandlerByName(allHandlers, n) = UndefinedHandler
         /\ (response.request = "CallTool" /\ response.name = n)
              => response.outcome = "MethodNotFound"

(***************************************************************************)
(* C9  Extra handlers are unreachable: no CallTool request reaches a       *)
(* handler registered under a name that is not among the listed tool       *)
(* names.                                                                  *)
(***************************************************************************)
ExtraHandlersUnreachable ==
  (entry = "dynamic" /\ response.request = "CallTool"
     /\ response.invoked.owner \in ProviderSet)
    => \E j \in DOMAIN serverTools : serverTools[j].name = response.name

(***************************************************************************)
(* C10  Catalog validation: validateAllTools raises exactly when some tool *)
(* of the merged catalog lacks name, description or inputSchema, or has an *)
(* inputSchema without type or properties; the raised message names every  *)
(* offending tool; otherwise it returns true; the catalog is not changed.  *)
(***************************************************************************)
Offending(tool) ==
  \/ tool.name \in {UNDEF, ""}
  \/ tool.description = FALSE
  \/ tool.inputSchema \in {"absent", "notype", "noprops"}

CatalogValidation ==
  /\ []((entry = "dynamic" /\ loaderState = "Loaded")
          => /\ raised.kind = "validation"
                  <=> \E i \in DOMAIN allTools : Offending(allTools[i])
             /\ raised.kind = "validation"
                  => /\ \A i \in DOMAIN allTools :
                          Offending(allTools[i])
                            => \E j \in DOMAIN raised.errors :
                                 raised.errors[j].tool = Str(allTools[i].name)
                     /\ \A j \in DOMAIN raised.errors :
                          \E i \in DOMAIN allTools :
                            /\ Offending(allTools[i])
                            /\ raised.errors[j].tool = Str(allTools[i].name)
                     /\ shell = "exited"
             /\ raised.kind # "validation"
                  => shell \in {"initialized", "connected"})
  /\ [][(loaderState = "Loading" /\ loaderState' = "Loaded")
          => /\ allTools' = allTools
             /\ allHandlers' = allHandlers
             /\ loadedModules' = loadedModules
             /\ serverTools' = allTools]_vars

CatalogValidationWitness ==
  /\ loaderState = "Loaded"
  /\ raised.kind = "validation"
  /\ Len(raised.errors) = 5
  /\ Len(allTools) = 18
  /\ exitCode = 1

(***************************************************************************)
(* C11  Propagation policy: from construction through loadAllModules and   *)
(* validateAllTools, an error leaves the loader only as a provider load    *)
(* error in non-production mode or as a catalog malformation error of      *)
(* validateAllTools, whatever tools-config.json holds (unreadable,         *)
(* corrupt, without enabledModules, malformed entries).                    *)
(***************************************************************************)
PropagationPolicy ==
  /\ raised.kind \in {"", "load", "validation"}
  /\ raised.kind = "load" => env # "production"
  /\ loaderState = "Failed" => raised.kind = "load"

(***************************************************************************)
(* C12  Configuration fallback: when tools-config.json cannot be read or   *)
(* parsed the loader is constructed without an error, a warning is logged  *)
(* and the configuration is the default: search, papers, agents, reviews,  *)
(* citations, marketplace, users, all enabled, loaded in that order; when  *)
(* the file is read and parsed the configuration is the parsed structure.  *)
(***************************************************************************)
SevenModules ==
  <<"search", "papers", "agents", "reviews", "citations", "marketplace",
    "users">>

ConfigurationFallback ==
  /\ configFile.status \in {"unreadable", "corrupt"}
       => /\ config.modulesPresent
          /\ EnabledKeys(config) = SevenModules
          /\ \A i \in DOMAIN config.enabledModules :
               config.enabledModules[i].enabled = "true"
          /\ config.orderPresent
          /\ config.moduleLoadOrder = SevenModules
          /\ Len(log) > 0 /\ log[1].kind = "configWarning"
          /\ shell = "constructed" => raised = NoError /\ exitCode = -1
  /\ configFile.status = "ok"
       => /\ config = configFile.doc
          /\ \A i \in DOMAIN log : log[i].kind # "configWarning"
          /\ shell = "constructed" => raised = NoError /\ exitCode = -1

ConfigurationFallbackWitness ==
  /\ configFile.status = "corrupt"
  /\ env = "unset"
  /\ shell = "connected"
  /\ Attempted = SevenModules
  /\ Len(loadedModules) = 7
  /\ Len(serverTools) = 44

(***************************************************************************)
(* C13  Configuration persistence error: when writing the configuration    *)
(* back fails, updateModuleConfig logs the failure, returns false and      *)
(* does not throw.                                                         *)
(***************************************************************************)
\* the step is an updateModuleConfig call whose writeFileSync throws:
\* saveConfig logs the failure
WriteFails ==
  /\ edits' = edits + 1
  /\ log' = Append(log, LogLine("saveFailed", "", <<>>, 0))

PersistenceError ==
  [][WriteFails => /\ response'.request = "updateModuleConfig"
                   /\ response'.outcome = "false"
                   /\ configFile' = configFile
                   /\ raised' = raised
                   /\ exitCode' = exitCode]_vars

(***************************************************************************)
(* C14  Toggling does not touch the live catalog: for every name, flag and *)
(* write outcome updateModuleConfig leaves the tool sequence, the handler  *)
(* mapping and the loaded providers as they were; once loaded, the catalog *)
(* served by ListTools and CallTool stays the same until the process is    *)
(* started again, whatever is toggled.                                     *)
(***************************************************************************)
catalog == <<loadedModules, allTools, allHandlers, serverTools, serverHandlers>>

TogglingFrame ==
  /\ [][(edits' = edits + 1 /\ response'.request = "updateModuleConfig")
          => UNCHANGED catalog]_vars
  /\ [][(loaderState = "Loaded" /\ restarts' = restarts)
          => UNCHANGED catalog]_vars
  /\ [](response.request = "ListTools" => response.tools = allTools)
  /\ [](response.request = "CallTool"
          => response.invoked = IF response.outcome = "MethodNotFound"
                                THEN UndefinedHandler
                                ELSE Lookup(allHandlers, response.name))

TogglingFrameWitness ==
  /\ edits = 1
  /\ loaderState = "Loaded"
  /\ ModuleConfig(config, "papers").enabled = "false"
  /\ ModuleConfig(config, "agents").enabled = "false"
  /\ configFile.doc = config
  /\ MapHas(loadedModules, "papers")
  /\ ~MapHas(loadedModules, "agents")
  /\ response.request = "CallTool"
  /\ response.name = "submit_paper"
  /\ response.invoked = Handler("papers", "submit_paper")

(***************************************************************************)
(* C15  getStats is read-only and idempotent: a call changes neither the   *)
(* configuration nor loadedModules, tools or handlers, and two successive  *)
(* calls with no load activity in between return the same totalModules,    *)
(* totalTools, totalHandlers and per-module tool counts, whatever else     *)
(* (toggling included) happens between them.                               *)
(***************************************************************************)
\* the counts of a getStats() result
Counts(value) ==
  [totalModules |-> value.totalModules, totalTools |-> value.totalTools,
   totalHandlers |-> value.totalHandlers,
   toolCounts |-> [i \in DOMAIN value.modules |->
                     <<value.modules[i].name, value.modules[i].toolCount>>]]

StatsIdempotent ==
  [][stats'.calls = stats.calls + 1
       => /\ UNCHANGED <<config, configFile, loadedModules, allTools,
                         allHandlers, serverTools, serverHandlers, log>>
          /\ (stats.calls > 0 /\ stats.at = LoadProgress)
               => Counts(stats'.value) = Counts(stats.value)
          /\ stats'.value.totalModules = Len(loadedModules)
          /\ stats'.value.totalTools = Len(allTools)]_vars

StatsIdempotentWitness ==
  /\ stats.calls = 2
  /\ stats.at = LoadProgress
  /\ loaderState = "Loaded"
  /\ edits = 1
  /\ stats.value.totalModules = 2
  /\ stats.value.totalTools = 12
  /\ stats.value.totalHandlers = 12
  /\ \E i \in DOMAIN stats.value.modules :
       /\ stats.value.modules[i].name = "papers"
       /\ stats.value.modules[i].toolCount = 8
       /\ ~stats.value.modules[i].enabled

(***************************************************************************)
(* C16  Handler lookup: getHandlerByName(name) returns a handler only if a *)
(* loaded provider registered one under exactly that name and undefined    *)
(* for every other name (tools of skipped or failed providers, names never *)
(* registered, names of built-in object properties); a CallTool request    *)
(* for such a name is answered with MethodNotFound and invokes nothing.    *)
(***************************************************************************)
\* the names some loaded provider registered a handler under
RegisteredNames ==
  IF entry = "dynamic"
  THEN UNION {{loadedModules[i].handlers[j].name :
                 j \in DOMAIN loadedModules[i].handlers} :
              i \in DOMAIN loadedModules}
  ELSE DOMAIN serverHandlers

LookupNames ==
  CallNames \cup {"constructor", "get_agents", "get_paper", "ghost"}

HandlerLookup ==
  /\ (entry = "dynamic" /\ loaderState = "Loaded")
       => \A n \in LookupNames :
            LET found == GetHandlerByName(allHandlers, n)
            IN /\ n \in RegisteredNames
                    => found.name = n /\ MapHas(loadedModules, found.owner)
               /\ n \notin RegisteredNames => found = UndefinedHandler
  /\ (response.request = "CallTool" /\ response.name \notin RegisteredNames)
       => /\ response.outcome = "MethodNotFound"
          /\ response.invoked = UndefinedHandler

(***************************************************************************)
(* C17  Global name uniqueness: after any load, whatever the configuration *)
(* (a load order may repeat a provider) and the providers, no two entries  *)
(* of the tool sequence have the same name.                                *)
(***************************************************************************)
NoDuplicateNames(tools) ==
  \A i, j \in DOMAIN tools : tools[i].name = tools[j].name => i = j

NameUniqueness ==
  entry = "dynamic"
    => /\ loaderState = "Loaded" => NoDuplicateNames(allTools)
       /\ shell \in {"initialized", "connected"} => NoDuplicateNames(serverTools)
       /\ response.request = "ListTools" => NoDuplicateNames(response.tools)

(***************************************************************************)
(* C18  Last-writer-wins merge: when several loaded providers register a   *)
(* handler under one name, the handler mapping holds the handler of the    *)
(* one loaded last; the collision raises no error, adds no line to the log *)
(* and every one of these providers counts as loaded.                      *)
(***************************************************************************)
\* the providers whose load succeeded, in the order they were loaded
LoadedSequence == ModulesLogged(log, {"loaded"})

\* the providers whose handlers the static server merges, in its order
StaticMerged ==
  SelectNames(Providers,
              {p \in ProviderSet \ StaticFailing : impl[p] # "badHandlers"})

\* the lines loadModule writes about a provider whose own definitions and
\* handlers do not match
OwnWarnings ==
  {i \in DOMAIN log : log[i].kind \in {"missingHandlers", "extraHandlers"}}

LastWriterWins ==
  /\ entry = "dynamic"
       => /\ allHandlers = MergedHandlers(LoadedSequence)
          /\ \A i \in DOMAIN LoadedSequence :
               MapHas(loadedModules, LoadedSequence[i])
          /\ raised.kind = "load" => Fails(raised.errors[1].tool)
          /\ \A i \in OwnWarnings :
               LET defined == {t.name : t \in Range(ToolDefinitions(
                                 log[i].module, Built(log[i].module)))}
                   handled == HandlerNamesOf(log[i].module)
               IN Range(log[i].names)
                    \subseteq (defined \ handled) \cup (handled \ defined)
          /\ \A i \in DOMAIN log :
               log[i].kind \in {"configWarning", "loading", "skip", "loaded",
                                "failed", "continuing", "missingHandlers",
                                "extraHandlers", "initialized", "complete",
                                "initFailed", "startFailed", "running",
                                "toolFailed"}
  /\ (entry = "static" /\ shell \in {"initialized", "connected"})
       => serverHandlers = MergedHandlers(StaticMerged)

LastWriterWinsWitness ==
  /\ entry = "dynamic"
  /\ shell = "connected"
  /\ LoadedSequence = <<"search", "papers", "agents">>
  /\ impl["agents"] = "extra"
  /\ "submit_paper" \in HandlerNamesOf("papers")
  /\ serverHandlers["submit_paper"] = Handler("agents", "submit_paper")
  /\ raised = NoError
  /\ Len(loadedModules) = 3
  /\ Len(log) = 9

(***************************************************************************)
(* C19  Single writer before any reader: a ListTools or CallTool request   *)
(* is answered only on a connected transport; the transport is connected   *)
(* only after loadAllModules has returned and validateAllTools has passed; *)
(* when either throws it is never connected; once it is connected the tool *)
(* sequence and the handler mapping are not written again.                 *)
(***************************************************************************)
SingleWriter ==
  /\ [](response.request \in {"ListTools", "CallTool"} => shell = "connected")
  /\ [][(shell # "connected" /\ shell' = "connected")
          => /\ shell = "initialized"
             /\ raised = NoError
             /\ entry = "dynamic"
                  => /\ loaderState = "Loaded"
                     /\ idx = Len(ModuleOrder(config)) + 1
                     /\ ValidationErrors(allTools) = <<>>
                     /\ serverTools = allTools
                     /\ serverHandlers = allHandlers]_vars
  /\ [][raised.kind # "" => shell' = "exited" /\ raised' = raised]_vars
  /\ [][shell = "connected"
          => /\ shell' = "connected"
             /\ UNCHANGED <<allTools, allHandlers, loadedModules, serverTools,
                            serverHandlers>>]_vars

SingleWriterWitness ==
  /\ entry = "dynamic"
  /\ env = "production"
  /\ shell = "connected"
  /\ ModulesLogged(log, {"failed"}) = <<"papers">>
  /\ response.request = "CallTool"
  /\ response.name = "search_papers"
  /\ response.outcome = "result"
  /\ Len(serverTools) = 7

(***************************************************************************)
(* C20  Public features need no setup: a makeApiRequest call with          *)
(* requireAuth = false, made when no API key is configured and no          *)
(* unexpired token is cached, sends the request without a credential       *)
(* header, sends no login and no key-validation request and does not fail  *)
(* with an authentication error of the server's own making.                *)
(***************************************************************************)
\* the step is a makeApiRequest call for a public endpoint by a client
\* without API key and without a usable cached token
PublicCallWithoutCredentials ==
  /\ api'.requests = api.requests + 1
  /\ ~api'.requireAuth
  /\ api.keyEnv = ""
  /\ ~TokenValid(api)

\* the call sends exactly the request, anonymously, and ends with the
\* backend's answer
SentAnonymously ==
  /\ api'.sent = <<Request("endpoint", "none")>>
  /\ api'.outcome \in {"ok", "ApiRequestFailed", "NetworkError"}
  /\ shell' = shell
  /\ exitCode' = exitCode

PublicNeedsNoSetup ==
  [][PublicCallWithoutCredentials => SentAnonymously]_vars

\* the same, except in a process that demands authentication: production
\* mode with REQUIRE_AUTH set and neither key nor complete credentials,
\* where the first use of the client ends the process and sends nothing
PublicNeedsNoSetupUnlessRequired ==
  [][PublicCallWithoutCredentials
       => IF ConfigurationExits(api)
          THEN /\ ~api.initialized
               /\ api'.sent = <<>>
               /\ api'.outcome = "exit"
               /\ shell' = "exited"
               /\ exitCode' = 1
          ELSE SentAnonymously]_vars

PublicNeedsNoSetupWitness ==
  /\ api.requests = 2
  /\ ~api.requireAuth
  /\ api.keyEnv = ""
  /\ api.credentials = "both"
  /\ api.requireAuthEnv
  /\ env = "unset"
  /\ api.jwtToken = "jwt"
  /\ ~TokenValid(api)
  /\ api.sent = <<Request("endpoint", "none")>>
  /\ api.outcome = "ok"

(***************************************************************************)
(* C21  Authenticate once: after login_user or configure_api_key has       *)
(* completed successfully in a running server, every later request that    *)
(* requires authentication in that process is sent with the newly          *)
(* obtained API key, whatever calls were made before the login.            *)
(***************************************************************************)
\* a makeApiRequest call with requireAuth made after a successful login
AuthenticatedCallAfterLogin ==
  /\ api.savedKey # ""
  /\ api'.requests = api.requests + 1
  /\ api'.requireAuth

\* the call in api was made with the key `key` in an X-API-Key header
SentWithKey(a, key) ==
  /\ a.apiKey = key
  /\ a.sent # <<>>
  /\ \A i \in 1..Len(a.sent) : a.sent[i] = Request("endpoint", "X-API-Key")

AuthenticateOnce ==
  [][AuthenticatedCallAfterLogin => SentWithKey(api', api.savedKey)]_vars

(***************************************************************************)
(* C22  Definition and handler of a name come from the same provider: for  *)
(* every tool name for which getToolByName and getHandlerByName both       *)
(* return a value after loading, the definition and the handler returned   *)
(* were contributed by the same provider.                                  *)
(***************************************************************************)
\* the names looked up: every name in the catalog and the request names
ToolLookupNames ==
  LookupNames \cup {allTools[i].name : i \in DOMAIN allTools}

SameProvider ==
  (entry = "dynamic" /\ loaderState = "Loaded")
    => \A n \in ToolLookupNames :
         LET tool == GetToolByName(allTools, n)
             handler == GetHandlerByName(allHandlers, n)
         IN (tool # UndefinedTool /\ handler # UndefinedHandler)
              => tool.owner = handler.owner

(***************************************************************************)
(* C23  Dispatch error mapping: in both server entry points the outcome of *)
(* a CallTool request is exactly one of: the handler's result; the         *)
(* MethodNotFound error when no handler is found, no handler being         *)
(* invoked; the handler's own McpError; or an InternalError wrapping any   *)
(* other error.  No other exception reaches the protocol layer.            *)
(***************************************************************************)
DispatchErrorMapping ==
  response.request = "CallTool"
    => LET handler == Lookup(serverHandlers, response.name)
       IN /\ response.outcome
               \in {"result", "MethodNotFound", "McpError", "InternalError"}
          /\ response.outcome = "MethodNotFound" <=> handler = UndefinedHandler
          /\ handler = UndefinedHandler
               => response.invoked = UndefinedHandler /\ response.did = ""
          /\ handler # UndefinedHandler
               => /\ response.invoked = handler
                  /\ response.did = "returns" <=> response.outcome = "result"
                  /\ response.did = "throwsMcpError"
                       <=> response.outcome = "McpError"
                  /\ response.did = "throwsError"
                       <=> response.outcome = "InternalError"

\* a handler of a provider threw an ordinary Error in the static server
DispatchErrorMappingWitness ==
  /\ entry = "static"
  /\ response.request = "CallTool"
  /\ response.invoked.owner \in ProviderSet
  /\ response.did = "throwsError"
  /\ response.outcome = "InternalError"

(***************************************************************************)
(* C24  Toggle round-trip: after updateModuleConfig(name, e) returns true  *)
(* for a name present in enabledModules, a loader constructed afterwards   *)
(* reads a configuration whose entry for that name has enabled = e, every  *)
(* other entry and the load order being unchanged; for a name absent from  *)
(* enabledModules the call returns false and changes neither the           *)
(* in-memory configuration nor the stored one.                             *)
(***************************************************************************)
\* an updateModuleConfig call is answered in this step
Toggled ==
  /\ edits' = edits + 1
  /\ response'.request = "updateModuleConfig"

\* the configuration a loader constructed on file would read is the one
\* read before with the flag of name set
StoredWithFlag(before, after, name) ==
  \E e \in {"true", "false"} :
    /\ LoadConfig(after) = SetEnabled(LoadConfig(before), name, e)
    /\ ModuleConfig(LoadConfig(after), name).enabled = e
    /\ ModuleConfig(config', name).enabled = e

ToggleRoundTrip ==
  [][Toggled
       => IF ModuleConfig(config, response'.name).found = "own"
          THEN response'.outcome = "true"
                 => StoredWithFlag(configFile, configFile', response'.name)
          ELSE /\ response'.outcome = "false"
               /\ UNCHANGED <<config, configFile>>]_vars

(***************************************************************************)
(* C25  No password fallback in production: when the environment is        *)
(* production, an API key is configured and its validation request fails,  *)
(* ensureAuthentication raises an error and the supervisor email/password  *)
(* login request is never issued; the password login is attempted only     *)
(* when no API key is configured or the environment is not production.     *)
(***************************************************************************)
\* a makeApiRequest call is made in this step
ApiCall == api'.requests = api.requests + 1

\* the call asked the backend to validate the key and no valid token came
\* of it
ValidationFailed(a) ==
  /\ Request("stats/platform", "X-API-Key") \in Range(a.sent)
  /\ ~TokenValid(a)

\* the call issued the supervisor email/password login
PasswordLoginSent(a) == Request("auth/login", "none") \in Range(a.sent)

NoPasswordFallback ==
  [][ApiCall
       => /\ (IsProduction /\ api'.apiKey # "")
               => /\ ~PasswordLoginSent(api')
                  /\ ValidationFailed(api')
                       => api'.outcome \in {"ApiKeyFailed", "RefreshFailed"}
          /\ PasswordLoginSent(api') => (api'.apiKey = "" \/ ~IsProduction)]_vars

\* a production process with supervisor credentials whose configured key
\* was rejected
NoPasswordFallbackWitness ==
  /\ env = "production"
  /\ api.apiKey = "test-api-key-for-mcp"
  /\ api.credentials = "both"
  /\ api.requireAuth
  /\ api.sent = <<Request("stats/platform", "X-API-Key")>>
  /\ api.outcome = "ApiKeyFailed"

(***************************************************************************)
(* C26  Bounded retry on 401: one makeApiRequest call sends the target     *)
(* request at most twice; the second attempt happens only when the first   *)
(* was answered with 401 and carried a Bearer Authorization header, and    *)
(* only after the cached token was cleared and a fresh authentication      *)
(* succeeded; a request authenticated with X-API-Key, and any failed       *)
(* second attempt, is never retried and ends in an McpError.               *)
(***************************************************************************)
IsTarget(request) == request.to = "endpoint"

\* the outcomes of makeApiRequest that are an McpError
McpErrors ==
  {"ApiKeyFailed", "AuthenticationRequired", "RefreshFailed", "NetworkError",
   "ApiRequestFailed"}

\* what the claim says of the call that leaves the client r when the backend
\* answers as b
RetriedOnce(r, b) ==
  LET targets == SelectSeq(r.sent, IsTarget)
      first == CHOOSE i \in DOMAIN r.sent : IsTarget(r.sent[i])
  IN /\ Len(targets) <= 2
     /\ r.outcome \in McpErrors \cup {"ok"}
     /\ Len(targets) = 2
          => /\ b.status = "401"
             /\ targets[1].auth = "Bearer"
             /\ targets[2].auth = "Bearer"
             /\ IsTarget(r.sent[Len(r.sent)])
             /\ first + 1 < Len(r.sent)
             /\ \A i \in (first + 1)..(Len(r.sent) - 1) :
                  r.sent[i] \in {Request("stats/platform", "X-API-Key"),
                                 Request("auth/login", "none")}
             /\ TokenValid(r)
             /\ r.tokenExpiry \in {r.now + ApiKeyTokenHours,
                                    r.now + LoginTokenHours}
             /\ r.outcome = IF b.retryOk THEN "ok" ELSE "RefreshFailed"
     /\ (Len(targets) >= 1 /\ targets[1].auth = "X-API-Key")
          => /\ Len(targets) = 1
             /\ b.status # "200" => r.outcome \in McpErrors

BoundedRetry ==
  \A requireAuth \in BOOLEAN, b \in Backends :
    (api.requests < MaxRequests /\ (api.initialized \/ ~ConfigurationExits(api)))
      => RetriedOnce(MakeApiRequestResult(api, requireAuth, b), b)

\* a call whose Bearer request was refused with 401 and, after the key was
\* validated again, sent a second time and refused
BoundedRetryWitness ==
  /\ api.sent = <<Request("stats/platform", "X-API-Key"),
                  Request("endpoint", "Bearer"),
                  Request("stats/platform", "X-API-Key"),
                  Request("endpoint", "Bearer")>>
  /\ api.outcome = "RefreshFailed"
  /\ TokenValid(api)

(***************************************************************************)
(* C27  Loaded set is bounded by the configuration: during and after       *)
(* loadAllModules, in any mode and whether it returned or threw, every     *)
(* loaded provider is a name of the load-order sequence with a truthy      *)
(* `enabled` in enabledModules, and every tool and handler comes from a    *)
(* loaded provider; a provider enabled in enabledModules but not named in  *)
(* an explicit moduleLoadOrder is never loaded and contributes no tools.   *)
(***************************************************************************)
\* the providers that contributed to the catalog
Contributors ==
  {allTools[i].owner : i \in DOMAIN allTools}
    \cup {allHandlers[n].owner : n \in DOMAIN allHandlers}
    \cup {loadedModules[i].name : i \in DOMAIN loadedModules}

RECURSIVE SumToolCounts(_)
SumToolCounts(modules) ==
  IF modules = <<>> THEN 0
  ELSE Head(modules).toolCount + SumToolCounts(Tail(modules))

StatsConsistent ==
  (entry = "dynamic" /\ config.modulesPresent)
    => LET value == GetStats(config, loadedModules, allTools, allHandlers)
       IN /\ value.totalTools = SumToolCounts(value.modules)
          /\ value.totalModules = Len(value.modules)

(***************************************************************************)
(* C29  One notion of production mode: for every value of NODE_ENV, unset  *)
(* included, the loader's failure policy (continue or abort on a provider  *)
(* load failure) treats the process as production exactly when the base    *)
(* utilities and the reported server environment do.                       *)
(***************************************************************************)
\* both readers of NODE_ENV outside the loader call the process production
ProductionElsewhere == IsProduction /\ ServerEnvironment = "production"

OneProductionMode ==
  /\ (IsProduction <=> ServerEnvironment = "production")
  /\ raised.kind = "load" => ~ProductionElsewhere
  /\ ModulesLogged(log, {"continuing"}) # <<>> => ProductionElsewhere

(***************************************************************************)
(* C30  Enabled flag is reported consistently: after any sequence of       *)
(* loadAllModules and updateModuleConfig calls, for every loaded provider  *)
(* the `enabled` value of getModuleInfo equals the `enabled` value of its  *)
(* entry in getStats().modules.                                            *)
(***************************************************************************)
EnabledReportedConsistently ==
  (entry = "dynamic" /\ config.modulesPresent)
    => LET value == GetStats(config, loadedModules, allTools, allHandlers)
       IN \A i \in DOMAIN loadedModules :
            /\ value.modules[i].name = loadedModules[i].name
            /\ value.modules[i].enabled
                 = GetModuleInfo(loadedModules, loadedModules[i].name).enabled
====
